---- MODULE Spec2Model ----
(***************************************************************************)
(* WeathAware API (src/main.py, src/schemas.py): registration, login,      *)
(* token verification and the three protected handlers, over the document  *)
(* store of database.py (users, flight plans, briefings).                  *)
(*                                                                         *)
(* Time is in seconds since the epoch.  `now` is the true UTC clock, the   *)
(* one jose reads in jwt.decode (timegm(utcnow().utctimetuple())).  `tz`   *)
(* is the UTC offset of the server's local time zone: main.py:64 takes     *)
(* datetime.utcnow().timestamp(), and timestamp() of a naive datetime      *)
(* reads it as LOCAL time, so the value it yields is now - tz.             *)
(* The clock counts whole seconds: jose truncates both exp and the time of *)
(* the check to whole seconds before it compares them.                     *)
(*                                                                         *)
(* register is two steps, its query and its insert, since requests are     *)
(* handled concurrently and the store is atomic per operation only.  The   *)
(* other handlers change the store in one insert, after lookups of         *)
(* documents that no handler changes or removes, and are one step each.    *)
(***************************************************************************)
EXTENDS Integers, Sequences, FiniteSets, TLC

VARIABLES
    tz,           \* UTC offset of the server's local time zone (seconds)
    now,          \* UTC clock (seconds)
    users,        \* collection "user", in the store's natural (insertion) order
    flightplans,  \* collection "flightplan"
    briefings,    \* collection "briefing"
    issued,       \* tokens the server has returned and clients still hold
    pending,      \* register requests between their query and their insert
    resp          \* the response the last step sent (NoResp when it sent none)

vars == <<tz, now, users, flightplans, briefings, issued, pending, resp>>

(***************************** bounds **************************************)
\* Flight plans and briefings the handlers insert in one run.
MaxNewDocs == 2
\* The clock stops here.
MaxNow == 43201

(************************ configuration (main.py) **************************)
SECRET_KEY == "dev-secret"
ACCESS_TOKEN_EXPIRE_MINUTES == 60 * 12
DashboardLimit == 20

\* A signing key that is not the server's.
OtherSecret == "not-the-server-secret"

\* Local time zones the server may run in: UTC-1, UTC, UTC+13.
TZOffsets == {0 - 3600, 0, 46800}

\* Amounts of time that pass between two requests.
Deltas == {ACCESS_TOKEN_EXPIRE_MINUTES * 60 - 1,
           ACCESS_TOKEN_EXPIRE_MINUTES * 60,
           ACCESS_TOKEN_EXPIRE_MINUTES * 60 + 1}

(******************************* text **************************************)
\* A code is a sequence of characters; str.upper() maps each character.
LowerChars == <<"a", "b", "f", "j", "k", "l", "r", "u", "x">>
UpperChars == <<"A", "B", "F", "J", "K", "L", "R", "U", "X">>

UpperChar(c) ==
    IF \E i \in 1..Len(LowerChars) : LowerChars[i] = c
    THEN UpperChars[CHOOSE i \in 1..Len(LowerChars) : LowerChars[i] = c]
    ELSE c

StrUpper(s) == [i \in 1..Len(s) |-> UpperChar(s[i])]

\* Mutant of UpperAll: the alternates are stored as submitted.
AlternatesAsSubmitted(as) == as

UpperAll(as) == [i \in 1..Len(as) |-> StrUpper(as[i])]

(***************************** identifiers *********************************)
\* The store gives every document a fresh _id; str(_id) is its text form and
\* _ensure_objectid reads the text form back.
UserIdBase == 100
PlanIdBase == 200
BriefingIdBase == 300

NewId(base, docs) == base + Len(docs) + 1

StrOfId(oid) == ToString(oid)

IdRange == (PlanIdBase + 1) .. (PlanIdBase + DashboardLimit + MaxNewDocs + 1)

ensure_objectid(s) ==
    IF \E n \in IdRange : StrOfId(n) = s
    THEN CHOOSE n \in IdRange : StrOfId(n) = s
    ELSE 0

(****************************** requests ***********************************)
RegisterRequests ==
    { [name |-> "Ann", email |-> "a@x.io", password |-> "p1"],
      [name |-> "Bob", email |-> "b@x.io", password |-> "p2"],
      [name |-> "Eve", email |-> "a@x.io", password |-> "p2"] }

Emails == {r.email : r \in RegisterRequests}
Passwords == {r.password : r \in RegisterRequests}

AuthRequests == [email : Emails, password : Passwords]

FlightPlanInputs ==
    { [origin |-> <<"k", "j", "f", "k">>, destination |-> <<"k", "l", "a", "x">>,
       alternates |-> << <<"k", "b", "u", "r">>, <<"K", "l", "A", "1">> >>] }

\* bcrypt draws a fresh salt for every hash.
Salts == {"s1", "s2"}

(****************************** passwords **********************************)
\* passlib bcrypt: a salted digest; verify recomputes it with the stored salt.
pwd_context_hash(password, salt) == [salt |-> salt, digest |-> <<salt, password>>]

\* Mutant of pwd_context_verify: the outcome of the comparison is dropped.
pwd_context_verify_anything(password, hash) == TRUE

pwd_context_verify(password, hash) == hash.digest = <<hash.salt, password>>

(******************************** tokens ***********************************)
AbsentToken == [kind |-> "absent", sub |-> "", exp |-> 0, key |-> ""]
EmptyToken == [kind |-> "empty", sub |-> "", exp |-> 0, key |-> ""]
MalformedToken == [kind |-> "malformed", sub |-> "", exp |-> 0, key |-> ""]

jwt_encode(sub, exp, key) == [kind |-> "jwt", sub |-> sub, exp |-> exp, key |-> key]

\* datetime.utcnow().timestamp(): the naive UTC wall time read as local time.
UtcnowTimestamp == now - tz

create_access_token(sub) ==
    jwt_encode(sub, UtcnowTimestamp + ACCESS_TOKEN_EXPIRE_MINUTES * 60, SECRET_KEY)

\* jose: the signature is checked with the key, then _validate_exp raises
\* ExpiredSignatureError when exp < now (now == exp passes).
jwt_decode(token, key) ==
    /\ token.kind = "jwt"
    /\ token.key = key
    /\ ~(token.exp < now)

\* A token signed by someone who does not hold the server's secret.
ForgedToken == jwt_encode("b@x.io", 2 * MaxNow, OtherSecret)

\* A token the server signed at time 0 for a user since removed from the
\* store by its operator (the handlers themselves never delete).
OrphanToken ==
    jwt_encode("gone@x.io", 0 - tz + ACCESS_TOKEN_EXPIRE_MINUTES * 60, SECRET_KEY)

Presentable ==
    issued \cup {AbsentToken, EmptyToken, MalformedToken, ForgedToken, OrphanToken}

(************************** document store *********************************)
\* get_documents(collection, filter, limit): the matching documents in the
\* store's natural order, cut to `limit`; limit 0 stands for no limit.
Limit(docs, limit) ==
    IF limit = 0 \/ Len(docs) <= limit THEN docs ELSE SubSeq(docs, 1, limit)

get_documents_user(email, limit) ==
    Limit(SelectSeq(users, LAMBDA d : d.email = email), limit)

get_documents_flightplan_by_user_id(user_id, limit) ==
    Limit(SelectSeq(flightplans, LAMBDA d : d.user_id = user_id), limit)

get_documents_flightplan_by_id(oid) ==
    Limit(SelectSeq(flightplans, LAMBDA d : d._id = oid), 0)

\* create_document(collection, data): appends data under a fresh _id.
create_document(docs, base, data) ==
    Append(docs, [data EXCEPT !._id = NewId(base, docs)])

InsertedId(docs) == StrOfId(docs[Len(docs)]._id)

(************************* access control **********************************)
Denied(status, detail) ==
    [ok |-> FALSE, status |-> status, detail |-> detail]

get_current_user(token) ==
    IF token.kind \in {"absent", "empty"}
    THEN Denied(401, "Not authenticated")
    ELSE IF ~jwt_decode(token, SECRET_KEY)
    THEN Denied(401, "Invalid token")
    ELSE IF token.sub = ""
    THEN Denied(401, "Invalid token")
    ELSE IF get_documents_user(token.sub, 1) = << >>
    THEN Denied(401, "User not found")
    ELSE [ok |-> TRUE, status |-> 200, user |-> get_documents_user(token.sub, 1)[1]]

\* A protected handler declares `token: str`, a required query parameter:
\* the framework answers 422 to a request without it and never calls the
\* handler.
Resolve(token) ==
    IF token.kind = "absent"
    THEN Denied(422, "Field required")
    ELSE get_current_user(token)

(***************************** documents ***********************************)
\* schemas.py; _id is filled in by the store.  The fields a handler only
\* passes through (callsign, route, departure_time, cruise_altitude,
\* aircraft_type; hazards, metar, taf, notams, pireps, alternates, overlays)
\* are left out.
User(name, email, password_hash) ==
    [_id |-> 0, name |-> name, email |-> email,
     password_hash |-> password_hash, is_active |-> TRUE]

FlightPlan(user_id, origin, destination, alternates) ==
    [_id |-> 0, user_id |-> user_id, origin |-> origin,
     destination |-> destination, alternates |-> alternates]

Briefing(user_id, flight_plan_id, summary, risk_level) ==
    [_id |-> 0, user_id |-> user_id, flight_plan_id |-> flight_plan_id,
     summary |-> summary, risk_level |-> risk_level]

BriefingSummary ==
    "Winds aloft moderate, isolated TS enroute, bases 3k ft, VFR marginal near destination after 21Z; fuel/alt review advised."

BriefingRiskLevel == "MEDIUM"

(****************************** responses **********************************)
NoResp == [op |-> "none", status |-> 0]

Error(op, req, status, detail) ==
    [op |-> op, status |-> status, req |-> req, detail |-> detail]

Ok(op, req, body) ==
    [op |-> op, status |-> 200, req |-> req, body |-> body]

Token(access_token) == [access_token |-> access_token, token_type |-> "bearer"]

\* The client of an email keeps the newest token it was handed.
Hand(token) == {t \in issued : t.sub # token.sub} \cup {token}

\* Documents the handlers have inserted since the initial state.
NewDocs == (Len(flightplans) - DashboardLimit) + Len(briefings)

(******************************* initial ***********************************)
\* The service has run before: Bob is registered and has filed
\* DashboardLimit flight plans.
InitialUsers ==
    << [User("Bob", "b@x.io", pwd_context_hash("p2", "s1")) EXCEPT !._id = UserIdBase + 1] >>

InitialPlans ==
    [i \in 1..DashboardLimit |->
        [FlightPlan(StrOfId(UserIdBase + 1), <<"K", "J", "F", "K">>,
                    <<"K", "L", "A", "X">>, << >>)
            EXCEPT !._id = PlanIdBase + i]]

Init ==
    /\ tz \in TZOffsets
    /\ now = 0
    /\ users = InitialUsers
    /\ flightplans = InitialPlans
    /\ briefings = << >>
    /\ issued = {}
    /\ pending = {}
    /\ resp = NoResp

(******************************* handlers **********************************)
\* register, first half: the duplicate query.
register_query(req) ==
    /\ resp = NoResp
    /\ req \notin pending
    /\ IF get_documents_user(req.email, 1) # << >>
       THEN /\ resp' = Error("register", req, 400, "Email already registered")
            /\ pending' = pending
       ELSE /\ resp' = NoResp
            /\ pending' = pending \cup {req}
    /\ UNCHANGED <<tz, now, users, flightplans, briefings, issued>>

\* register, second half: hash, insert, issue the token.
register_insert(req, salt) ==
    /\ resp = NoResp
    /\ req \in pending
    /\ users' = create_document(users, UserIdBase,
                               User(req.name, req.email, pwd_context_hash(req.password, salt)))
    /\ pending' = pending \ {req}
    /\ issued' = Hand(create_access_token(req.email))
    /\ resp' = Ok("register", req, Token(create_access_token(req.email)))
    /\ UNCHANGED <<tz, now, flightplans, briefings>>

login_result(req) ==
    IF get_documents_user(req.email, 1) = << >>
    THEN Error("login", req, 401, "Invalid credentials")
    ELSE IF ~pwd_context_verify(req.password, get_documents_user(req.email, 1)[1].password_hash)
    THEN Error("login", req, 401, "Invalid credentials")
    ELSE Ok("login", req, Token(create_access_token(req.email)))

login(req) ==
    /\ resp = NoResp
    /\ resp' = login_result(req)
    /\ issued' = IF login_result(req).status = 200
                 THEN Hand(login_result(req).body.access_token)
                 ELSE issued
    /\ UNCHANGED <<tz, now, users, flightplans, briefings, pending>>

PlanOwnerId(user) == StrOfId(user._id)

NewFlightPlan(user, fp) ==
    FlightPlan(PlanOwnerId(user), StrUpper(fp.origin), StrUpper(fp.destination),
               UpperAll(fp.alternates))

create_flight_plan(token, fp) ==
    LET auth == Resolve(token)
        req == [token |-> token, fp |-> fp]
        bad == [token |-> token]
    IN  /\ resp = NoResp
        /\ auth.ok => NewDocs < MaxNewDocs
        /\ IF ~auth.ok
           THEN /\ resp' = Error("flightplan", bad, auth.status, auth.detail)
                /\ flightplans' = flightplans
           ELSE /\ flightplans' = create_document(flightplans, PlanIdBase,
                                                 NewFlightPlan(auth.user, fp))
                /\ resp' = Ok("flightplan", req, [id |-> InsertedId(flightplans')])
        /\ UNCHANGED <<tz, now, users, briefings, issued, pending>>

\* Mutant of dashboard_plans: the owner filter is left out of the query.
dashboard_plans_unfiltered(user) == Limit(flightplans, DashboardLimit)

dashboard_plans(user) == get_documents_flightplan_by_user_id(StrOfId(user._id), DashboardLimit)

dashboard(token) ==
    LET auth == Resolve(token)
        req == [token |-> token]
    IN  /\ resp = NoResp
        /\ resp' = IF ~auth.ok
                   THEN Error("dashboard", req, auth.status, auth.detail)
                   ELSE Ok("dashboard", req,
                           [user |-> [name |-> auth.user.name, email |-> auth.user.email],
                            recent_plans |-> dashboard_plans(auth.user)])
        /\ UNCHANGED <<tz, now, users, flightplans, briefings, issued, pending>>

\* Mutant of briefing_plans: the _id filter is left out of the query.
briefing_plans_unfiltered(flight_plan_id) == flightplans

briefing_plans(flight_plan_id) == get_documents_flightplan_by_id(ensure_objectid(flight_plan_id))

\* Mutant of NewBriefing: the briefing is tagged with the plan's owner.
NewBriefingForOwner(user, flight_plan_id) ==
    Briefing(get_documents_flightplan_by_id(ensure_objectid(flight_plan_id))[1].user_id,
             flight_plan_id, BriefingSummary, BriefingRiskLevel)

NewBriefing(user, flight_plan_id) ==
    Briefing(StrOfId(user._id), flight_plan_id, BriefingSummary, BriefingRiskLevel)

generate_briefing(token, flight_plan_id) ==
    LET auth == Resolve(token)
        req == [token |-> token, flight_plan_id |-> flight_plan_id]
        bad == [token |-> token]
    IN  /\ resp = NoResp
        /\ (auth.ok /\ briefing_plans(flight_plan_id) # << >>)
              => NewDocs < MaxNewDocs
        /\ IF ~auth.ok
           THEN /\ resp' = Error("brief", bad, auth.status, auth.detail)
                /\ briefings' = briefings
           ELSE IF briefing_plans(flight_plan_id) = << >>
           THEN /\ resp' = Error("brief", req, 404, "Flight plan not found")
                /\ briefings' = briefings
           ELSE /\ briefings' = create_document(briefings, BriefingIdBase,
                                               NewBriefing(auth.user, flight_plan_id))
                /\ resp' = Ok("brief", req,
                              [id |-> InsertedId(briefings'),
                               summary |-> briefings'[Len(briefings')].summary,
                               risk |-> briefings'[Len(briefings')].risk_level])
        /\ UNCHANGED <<tz, now, users, flightplans, issued, pending>>

(***************************** environment *********************************)
Tick(d) ==
    /\ resp = NoResp
    /\ now + d <= MaxNow
    /\ now' = now + d
    /\ resp' = NoResp
    /\ UNCHANGED <<tz, users, flightplans, briefings, issued, pending>>

\* The client receives the response; the next request is taken up after it.
Deliver ==
    /\ resp # NoResp
    /\ resp' = NoResp
    /\ UNCHANGED <<tz, now, users, flightplans, briefings, issued, pending>>

\* The plan ids a briefing request may name: the last initial plan, the
\* first plan a run inserts, and an id no plan of the run can have.
PlanIdInputs ==
    {StrOfId(PlanIdBase + i) : i \in {DashboardLimit, DashboardLimit + 1,
                                      DashboardLimit + MaxNewDocs + 1}}

Next ==
    \/ \E req \in RegisterRequests : register_query(req)
    \/ \E req \in RegisterRequests, salt \in Salts : register_insert(req, salt)
    \/ \E req \in AuthRequests : login(req)
    \/ \E token \in Presentable, fp \in FlightPlanInputs : create_flight_plan(token, fp)
    \/ \E token \in Presentable : dashboard(token)
    \/ \E token \in Presentable, id \in PlanIdInputs : generate_briefing(token, id)
    \/ \E d \in Deltas : Tick(d)
    \/ Deliver

Spec == Init /\ [][Next]_vars

(***************************************************************************)
(* What the claims speak of, stated without the operators of the model.    *)
(***************************************************************************)
ExpireSeconds == 12 * 60 * 60

Protected == {"flightplan", "dashboard", "brief"}

\* The token's signature verifies and the token has not expired (spec 3).
SignedByServer(token) == token.kind = "jwt" /\ token.key = SECRET_KEY

Expired(token) == now >= token.exp

HasUser(email) == \E i \in 1..Len(users) : users[i].email = email

\* The user a subject resolves to: the first stored user with that email.
UserOf(email) ==
    users[CHOOSE i \in 1..Len(users) :
            /\ users[i].email = email
            /\ \A j \in 1..(i - 1) : users[j].email # email]

\* C1: at every time, every token presented is accepted by the decode step
\* iff its signature verifies against the server secret and now < expiry;
\* a token at now = expiry is rejected.
C1_AcceptedIffSignedAndUnexpired ==
    \A token \in issued \cup {MalformedToken, ForgedToken} :
        jwt_decode(token, SECRET_KEY) <=> (SignedByServer(token) /\ ~Expired(token))

\* C2: a token issued at time t for subject s has expiry t + 12h and
\* verifies at once for s (the response is sent at the time of issue);
\* every token issued verifies before its expiry and no longer from its
\* expiry on.
C2_ExpiryTwelveHoursAfterIssue ==
    /\ \A token \in issued : jwt_decode(token, SECRET_KEY) <=> now < token.exp
    /\ (resp.op \in {"register", "login"} /\ resp.status = 200) =>
          /\ resp.body.access_token.sub = resp.req.email
          /\ resp.body.access_token.exp = now + ExpireSeconds
          /\ jwt_decode(resp.body.access_token, SECRET_KEY)

\* The requests C3 lists: no token, a malformed token, an expired token, a
\* signed unexpired token whose subject matches no stored user.
Unauthenticated(token) ==
    \/ token.kind \in {"absent", "malformed"}
    \/ SignedByServer(token) /\ Expired(token)
    \/ SignedByServer(token) /\ ~Expired(token) /\ ~HasUser(token.sub)

\* C3: a protected handler answers such a request 401 and performs no
\* domain operation.
C3_BadTokenIs401 ==
    [][(resp'.op \in Protected /\ Unauthenticated(resp'.req.token)) =>
          /\ resp'.status = 401
          /\ flightplans' = flightplans
          /\ briefings' = briefings]_vars

\* C4: a successful register has stored a user with the registered email
\* and returns a token that resolves, through get_current_user, to a user
\* whose email is the registered one; a register answered 400 found the
\* email stored.
C4_RegisterTokenResolves ==
    resp.op = "register" =>
        IF resp.status = 200
        THEN /\ users[Len(users)].email = resp.req.email
             /\ get_current_user(resp.body.access_token).ok
             /\ get_current_user(resp.body.access_token).user.email = resp.req.email
        ELSE resp.status = 400 /\ HasUser(resp.req.email)

\* C5: the user collection never holds two records with one email.
C5_EmailUnique ==
    \A i, j \in 1..Len(users) : users[i].email = users[j].email => i = j

\* The password a stored user registered with.
RegisteredPassword(user) ==
    (CHOOSE r \in RegisterRequests : r.name = user.name).password

WrongCredentials(req) ==
    \/ ~HasUser(req.email)
    \/ req.password # RegisteredPassword(UserOf(req.email))

\* C6: login answers 401 iff no stored user has the email or the password
\* is not the one the user found under that email registered with;
\* otherwise it answers with a token of the server whose subject is the
\* email.  Either way the store is left as it was.
C6_LoginOutcome ==
    [][resp'.op = "login" =>
          /\ resp'.status = IF WrongCredentials(resp'.req) THEN 401 ELSE 200
          /\ resp'.status = 200 =>
                /\ SignedByServer(resp'.body.access_token)
                /\ resp'.body.access_token.sub = resp'.req.email
          /\ users' = users
          /\ flightplans' = flightplans
          /\ briefings' = briefings]_vars

\* A login succeeds for a user registered in this run.
C6_Witness ==
    /\ resp.op = "login"
    /\ resp.status = 200
    /\ resp.req.email = "a@x.io"

\* str.upper() on the letters of the codes, by pairs.
CasePairs ==
    { <<"a", "A">>, <<"b", "B">>, <<"f", "F">>, <<"j", "J">>, <<"k", "K">>,
      <<"l", "L">>, <<"r", "R">>, <<"u", "U">>, <<"x", "X">> }

IsUpperOf(u, s) ==
    /\ Len(u) = Len(s)
    /\ \A i \in 1..Len(s) :
          IF \E q \in CasePairs : q[1] = s[i]
          THEN <<s[i], u[i]>> \in CasePairs
          ELSE u[i] = s[i]

\* C7: a successful createFlightPlan inserts exactly one flight plan, whose
\* user_id is the text of the id of the user the token resolves to and
\* whose origin, destination and alternates are the submitted codes in
\* upper case, the alternates in the submitted order, and returns the id
\* of that plan.
C7_FlightPlanStored ==
    [][(resp'.op = "flightplan" /\ resp'.status = 200) =>
          LET fp == resp'.req.fp
              plan == flightplans'[Len(flightplans')]
          IN  /\ Len(flightplans') = Len(flightplans) + 1
              /\ SubSeq(flightplans', 1, Len(flightplans)) = flightplans
              /\ \A k \in 1..Len(flightplans) : flightplans[k]._id # plan._id
              /\ plan.user_id = ToString(UserOf(resp'.req.token.sub)._id)
              /\ IsUpperOf(plan.origin, fp.origin)
              /\ IsUpperOf(plan.destination, fp.destination)
              /\ Len(plan.alternates) = Len(fp.alternates)
              /\ \A i \in 1..Len(fp.alternates) :
                    IsUpperOf(plan.alternates[i], fp.alternates[i])
              /\ resp'.body.id = ToString(plan._id)]_vars

\* "kjfk"/"klax" has been stored as "KJFK"/"KLAX", with two alternates.
C7_Witness ==
    /\ resp.op = "flightplan"
    /\ resp.status = 200
    /\ resp.req.fp.origin = <<"k", "j", "f", "k">>
    /\ flightplans[Len(flightplans)].origin = <<"K", "J", "F", "K">>
    /\ flightplans[Len(flightplans)].destination = <<"K", "L", "A", "X">>
    /\ Len(flightplans[Len(flightplans)].alternates) = 2

PlansOf(user) ==
    SelectSeq(flightplans, LAMBDA d : d.user_id = ToString(user._id))

\* C8: dashboard returns the name and email of the user the token resolves
\* to and at most 20 plans, each a stored flight plan of that user; the
\* list is empty when the user has no flight plan.
C8_DashboardOwnPlans ==
    (resp.op = "dashboard" /\ resp.status = 200) =>
        LET user == UserOf(resp.req.token.sub)
            plans == resp.body.recent_plans
        IN  /\ resp.body.user = [name |-> user.name, email |-> user.email]
            /\ Len(plans) <= 20
            /\ \A i \in 1..Len(plans) :
                  /\ \E k \in 1..Len(flightplans) : flightplans[k] = plans[i]
                  /\ plans[i].user_id = ToString(user._id)
            /\ PlansOf(user) = << >> => plans = << >>

\* A user with more than 20 flight plans, beside another user's, is shown 20.
C8_Witness ==
    /\ resp.op = "dashboard"
    /\ resp.status = 200
    /\ Len(resp.body.recent_plans) = 20
    /\ Len(PlansOf(UserOf(resp.req.token.sub))) > 20
    /\ Len(flightplans) > Len(PlansOf(UserOf(resp.req.token.sub)))

PlanExists(flight_plan_id) ==
    \E k \in 1..Len(flightplans) : ToString(flightplans[k]._id) = flight_plan_id

Authenticated(r) == r.status \notin {401, 422}

\* C9: generateBriefing with a token that resolves answers 404 and stores
\* no briefing when no flight plan has the id; when one has, it stores
\* exactly one briefing and returns its id, a non-empty summary and a risk
\* level among LOW, MEDIUM, HIGH.
C9_BriefingOutcome ==
    [][(resp'.op = "brief" /\ Authenticated(resp')) =>
          IF ~PlanExists(resp'.req.flight_plan_id)
          THEN resp'.status = 404 /\ briefings' = briefings
          ELSE /\ resp'.status = 200
               /\ Len(briefings') = Len(briefings) + 1
               /\ SubSeq(briefings', 1, Len(briefings)) = briefings
               /\ resp'.body.id = ToString(briefings'[Len(briefings')]._id)
               /\ resp'.body.summary # ""
               /\ resp'.body.risk \in {"LOW", "MEDIUM", "HIGH"}
               /\ briefings'[Len(briefings')].summary = resp'.body.summary
               /\ briefings'[Len(briefings')].risk_level = resp'.body.risk]_vars

\* A resolved user asks for a briefing on a plan id the store does not hold.
C9_Witness ==
    /\ resp.op = "brief"
    /\ resp.status = 404
    /\ ~PlanExists(resp.req.flight_plan_id)
    /\ HasUser(resp.req.token.sub)

\* C10: generateBriefing by any resolved user on any existing flight plan,
\* whoever owns it, succeeds; the briefing stored carries the requester's
\* id and the plan's id, and the flight plans are left as they were.
C10_BriefingOnAnyPlan ==
    [][(resp'.op = "brief" /\ Authenticated(resp')
            /\ PlanExists(resp'.req.flight_plan_id)) =>
          /\ resp'.status = 200
          /\ briefings'[Len(briefings')].user_id
                = ToString(UserOf(resp'.req.token.sub)._id)
          /\ briefings'[Len(briefings')].flight_plan_id = resp'.req.flight_plan_id
          /\ flightplans' = flightplans]_vars

\* A briefing has been stored for a requester who does not own the plan.
C10_Witness ==
    /\ resp.op = "brief"
    /\ resp.status = 200
    /\ \E k \in 1..Len(flightplans) :
          /\ ToString(flightplans[k]._id) = resp.req.flight_plan_id
          /\ flightplans[k].user_id # briefings[Len(briefings)].user_id
    /\ briefings[Len(briefings)].user_id
          = ToString(UserOf(resp.req.token.sub)._id)
====
